---- MODULE Spec2Model ----
(***************************************************************************)
(* CodeCommentTranslator: the comment extractors and replacers of          *)
(* src/src/file_detector.py, the file walker, the per-file translation     *)
(* pipeline of src/main.py (translate_file) with the translator of         *)
(* src/src/translator, and the worker pool of translate_all_files.         *)
(*                                                                         *)
(* Text is a sequence of one-character strings; positions and columns are  *)
(* 0-based as in the Python source, line numbers are 1-based.              *)
(***************************************************************************)
EXTENDS Integers, Sequences, FiniteSets, TLC

\* ------------------------------------------------------------------------
\* Characters and the str primitives the source uses
\* ------------------------------------------------------------------------

NL == "\n"
DQ == "\""
SQ == "'"
BS == "\\"

\* str.strip() and the regex class \s, over the characters of the model
Whitespace == {" ", "\n", "\t"}

Min(S) == CHOOSE x \in S : \A y \in S : x <= y

Max(S) == CHOOSE x \in S : \A y \in S : x >= y

\* s[:n]
Take(s, n) == SubSeq(s, 1, IF n < Len(s) THEN n ELSE Len(s))

\* s[n:]
Drop(s, n) == SubSeq(s, n + 1, Len(s))

\* s[i:].startswith(p), i 0-based
StartsAt(s, p, i) == i + Len(p) <= Len(s) /\ SubSeq(s, i + 1, i + Len(p)) = p

StartsWith(s, p) == StartsAt(s, p, 0)

EndsWith(s, p) == Len(p) <= Len(s) /\ SubSeq(s, Len(s) - Len(p) + 1, Len(s)) = p

\* p in s
Contains(s, p) == \E i \in 0..Len(s) : StartsAt(s, p, i)

\* s.count(c) for a single character c
Count(s, c) == Cardinality({i \in 1..Len(s) : s[i] = c})

\* the number of leading whitespace characters of s
LeadWs(s) ==
    IF \A i \in 1..Len(s) : s[i] \in Whitespace THEN Len(s)
    ELSE Min({i \in 1..Len(s) : s[i] \notin Whitespace}) - 1

\* s.lstrip()
LStrip(s) == Drop(s, LeadWs(s))

\* s.strip()
Strip(s) ==
    IF \A i \in 1..Len(s) : s[i] \in Whitespace THEN <<>>
    ELSE SubSeq(s, Min({i \in 1..Len(s) : s[i] \notin Whitespace}),
                   Max({i \in 1..Len(s) : s[i] \notin Whitespace}))

\* s.split('\n'): always at least one line
RECURSIVE Split(_)
Split(s) ==
    IF \A i \in 1..Len(s) : s[i] # NL THEN <<s>>
    ELSE LET i == Min({k \in 1..Len(s) : s[k] = NL})
         IN  <<SubSeq(s, 1, i - 1)>> \o Split(Drop(s, i))

\* ''.join(line + '\n' for line in lines): a newline after the last line too
RECURSIVE Join_NewlineAfterEach(_)
Join_NewlineAfterEach(ls) ==
    IF Len(ls) = 0 THEN <<>>
    ELSE ls[1] \o <<NL>> \o Join_NewlineAfterEach(Tail(ls))

\* '\n'.join(lines)
RECURSIVE Join(_)
Join(ls) ==
    IF Len(ls) = 0 THEN <<>>
    ELSE IF Len(ls) = 1 THEN ls[1]
    ELSE ls[1] \o <<NL>> \o Join(Tail(ls))

\* ' ' * n
Spaces(n) == [i \in 1..n |-> " "]

\* sum(len(l) + 1 for l in lines[:i-1]): the file offset of line i (1-based)
RECURSIVE LineOffset(_, _)
LineOffset(lines, i) ==
    IF i <= 1 THEN 0 ELSE LineOffset(lines, i - 1) + Len(lines[i - 1]) + 1

\* ------------------------------------------------------------------------
\* The quote scanner (_is_in_string of both extractors)
\* ------------------------------------------------------------------------

RECURSIVE QuoteScan(_, _, _, _)
QuoteScan(s, i, inSingle, inDouble) ==
    IF i > Len(s) THEN inSingle \/ inDouble
    ELSE IF s[i] = BS THEN QuoteScan(s, i + 2, inSingle, inDouble)
    ELSE IF s[i] = DQ /\ ~inSingle THEN QuoteScan(s, i + 1, inSingle, ~inDouble)
    ELSE IF s[i] = SQ /\ ~inDouble THEN QuoteScan(s, i + 1, ~inSingle, inDouble)
    ELSE QuoteScan(s, i + 1, inSingle, inDouble)

\* CStyleCommentExtractor._is_in_string(content, pos): scans content[:pos]
CStyle_is_in_string(content, pos) == QuoteScan(Take(content, pos), 1, FALSE, FALSE)

\* PythonCommentExtractor._is_in_string(content, pos): scans all of content
Python_is_in_string(content, pos) == QuoteScan(content, 1, FALSE, FALSE)

\* ------------------------------------------------------------------------
\* CStyleCommentExtractor
\* ------------------------------------------------------------------------

\* re.finditer(r'/\*[\s\S]*?\*/', content): the <<start, end>> offsets of the
\* leftmost non-overlapping non-greedy matches at or after offset from
RECURSIVE MultilineMatches(_, _)
MultilineMatches(s, from) ==
    LET starts == {i \in from..(Len(s) - 2) : StartsAt(s, <<"/", "*">>, i)}
    IN  IF starts = {} THEN <<>>
        ELSE LET i == Min(starts)
                 ends == {j \in (i + 2)..(Len(s) - 2) : StartsAt(s, <<"*", "/">>, j)}
             IN  IF ends = {} THEN <<>>
                 ELSE <<<<i, Min(ends) + 2>>>> \o MultilineMatches(s, Min(ends) + 2)

\* the length of the longest run of characters of Class from index i (1-based)
RECURSIVE RunLen(_, _, _)
RunLen(s, i, Class) ==
    IF i <= Len(s) /\ s[i] \in Class THEN 1 + RunLen(s, i + 1, Class) ELSE 0

\* re.sub(r'/\*[\s\*]*|\*/\s*$', '', s), from index i (1-based)
RECURSIVE StripMarkers(_, _)
StripMarkers(s, i) ==
    IF i > Len(s) THEN <<>>
    ELSE IF StartsAt(s, <<"/", "*">>, i - 1)
         THEN StripMarkers(s, i + 2 + RunLen(s, i + 2, Whitespace \cup {"*"}))
    ELSE IF StartsAt(s, <<"*", "/">>, i - 1)
            /\ i + 2 + RunLen(s, i + 2, Whitespace) > Len(s)
         THEN <<>>
    ELSE <<s[i]>> \o StripMarkers(s, i + 1)

\* the re.sub of detect_language: the leading run of slash, star, hash and
\* whitespace goes, and so does the trailing run of star, slash and whitespace
RECURSIVE StripStars(_, _)
StripStars(s, i) ==
    IF i > Len(s) THEN <<>>
    ELSE LET k == RunLen(s, i, Whitespace)
         IN  IF (i = 1 \/ s[i - 1] = NL) /\ i + k <= Len(s) /\ s[i + k] = "*"
             THEN StripStars(s, i + k + 1
                     + (IF i + k + 1 <= Len(s) /\ s[i + k + 1] \in Whitespace
                        THEN 1 ELSE 0))
             ELSE <<s[i]>> \o StripStars(s, i + 1)

\* CStyleCommentExtractor._extract_multiline_content
CStyle_extract_multiline_content(comment) ==
    Strip(StripStars(StripMarkers(comment, 1), 1))

\* the multiline matches that do not start inside a string literal
CStyleMultiline(content) ==
    SelectSeq(MultilineMatches(content, 0),
              LAMBDA m : ~CStyle_is_in_string(content, m[1]))

\* content[:pos].count('\n') + 1
LineOfPos(content, pos) == Count(Take(content, pos), NL) + 1

\* multiline_positions: every offset covered by a recorded multiline comment
CStyleMultilinePositions(content) ==
    LET ms == CStyleMultiline(content)
    IN  UNION {ms[k][1]..(ms[k][2] - 1) : k \in DOMAIN ms}

\* the record of the multiline match m = <<start_pos, end_pos>>
CStyleMultilineRecord(content, m) ==
    LET original == SubSeq(content, m[1] + 1, m[2])
        prev == Split(Take(content, m[1]))
    IN  [content  |-> CStyle_extract_multiline_content(original),
         start    |-> Len(prev[Len(prev)]),
         end      |-> m[2],
         original |-> original,
         type     |-> "multiline",
         extra    |-> [positions |-> m, line_count |-> Count(original, NL) + 1]]

\* re.finditer(r'//', line): the offsets of the non-overlapping matches
RECURSIVE SlashMatches(_, _)
SlashMatches(line, from) ==
    LET starts == {i \in from..(Len(line) - 2) : StartsAt(line, <<"/", "/">>, i)}
    IN  IF starts = {} THEN {}
        ELSE {Min(starts)} \cup SlashMatches(line, Min(starts) + 2)

\* CStyleInlineKept without the string-literal test
CStyleInlineKept_NoQuoteCheck(lines, i, positions) ==
    IF StartsWith(Strip(lines[i]), <<"#">>) THEN {}
    ELSE {pos \in SlashMatches(lines[i], 0) :
            LineOffset(lines, i) + pos \notin positions}

\* the // matches of line i that the inline scan does not skip
CStyleInlineKept(lines, i, positions) ==
    IF StartsWith(Strip(lines[i]), <<"#">>) THEN {}
    ELSE {pos \in SlashMatches(lines[i], 0) :
            /\ LineOffset(lines, i) + pos \notin positions
            /\ ~CStyle_is_in_string(Take(lines[i], pos), pos)}

\* the inline record of the // at offset pos of a line
CStyleInlineRecord(line, pos) ==
    [content  |-> Strip(Drop(line, pos + 2)),
     start    |-> pos,
     end      |-> Len(line),
     original |-> Drop(line, pos),
     type     |-> "inline",
     extra    |-> [has_code |-> Strip(Take(line, pos)) # <<>>]]

\* an extract_comments whose inline pass keeps the first // of a line
CStyle_extract_comments_FirstWins(content) ==
    LET lines == Split(content)
        ms == CStyleMultiline(content)
        positions == CStyleMultilinePositions(content)
        multiLines == {LineOfPos(content, ms[k][1]) : k \in DOMAIN ms}
        inlineLines == {i \in 1..Len(lines) : CStyleInlineKept(lines, i, positions) # {}}
    IN  [L \in multiLines \cup inlineLines |->
            IF L \in inlineLines
            THEN CStyleInlineRecord(lines[L], Min(CStyleInlineKept(lines, L, positions)))
            ELSE CStyleMultilineRecord(content,
                    ms[Max({k \in DOMAIN ms : LineOfPos(content, ms[k][1]) = L})])]

\* CStyleCommentExtractor.extract_comments: comments[line_num] of the multiline
\* pass is overwritten by a later match on the same line and then by the
\* inline pass, whose last kept // of a line wins
CStyle_extract_comments(content) ==
    LET lines == Split(content)
        ms == CStyleMultiline(content)
        positions == CStyleMultilinePositions(content)
        multiLines == {LineOfPos(content, ms[k][1]) : k \in DOMAIN ms}
        inlineLines == {i \in 1..Len(lines) : CStyleInlineKept(lines, i, positions) # {}}
    IN  [L \in multiLines \cup inlineLines |->
            IF L \in inlineLines
            THEN CStyleInlineRecord(lines[L], Max(CStyleInlineKept(lines, L, positions)))
            ELSE CStyleMultilineRecord(content,
                    ms[Max({k \in DOMAIN ms : LineOfPos(content, ms[k][1]) = L})])]

\* lines[a:b] = block (Python slice assignment, 0-based a and b)
SliceAssign(lines, a, b, block) == Take(lines, a) \o block \o Drop(lines, IF b > a THEN b ELSE a)

\* CStyleReplaceOne rebuilding every inline comment from its indentation alone
CStyleReplaceOne_IndentOnly(lines, info, line_num, translation) ==
    IF info.type = "inline"
    THEN [lines EXCEPT ![line_num] =
             Spaces(info.start) \o <<"/", "/", " ">> \o Strip(translation)]
    ELSE LET indentation == Spaces(info.start)
             parts == Split(translation)
             formatted == <<indentation \o <<"/", "*">>>>
                          \o [k \in 1..Len(parts) |-> indentation \o <<" ", "*", " ">> \o Strip(parts[k])]
                          \o <<indentation \o <<" ", "*", "/">>>>
         IN  SliceAssign(lines, line_num - 1, line_num - 1 + info.extra.line_count, formatted)

\* one iteration of the loop of CStyleCommentExtractor.replace_comments
CStyleReplaceOne(lines, info, line_num, translation) ==
    IF info.type = "inline"
    THEN IF info.extra.has_code
         THEN [lines EXCEPT ![line_num] =
                  Take(lines[line_num], info.start) \o <<"/", "/", " ">> \o Strip(translation)]
         ELSE [lines EXCEPT ![line_num] =
                  Spaces(info.start) \o <<"/", "/", " ">> \o Strip(translation)]
    ELSE LET indentation == Spaces(info.start)
             parts == Split(translation)
             formatted == <<indentation \o <<"/", "*">>>>
                          \o [k \in 1..Len(parts) |-> indentation \o <<" ", "*", " ">> \o Strip(parts[k])]
                          \o <<indentation \o <<" ", "*", "/">>>>
         IN  SliceAssign(lines, line_num - 1, line_num - 1 + info.extra.line_count, formatted)

\* a loop that passes over a key that has no record
RECURSIVE CStyleReplaceLoop_SkipsUnknown(_, _, _, _)
CStyleReplaceLoop_SkipsUnknown(lines, comments, translations, keys) ==
    IF keys = {} THEN [raised |-> FALSE, lines |-> lines]
    ELSE LET line_num == Max(keys)
         IN  IF line_num \notin DOMAIN comments
             THEN CStyleReplaceLoop_SkipsUnknown(lines, comments, translations,
                                                 keys \ {line_num})
             ELSE CStyleReplaceLoop_SkipsUnknown(
                     CStyleReplaceOne(lines, comments[line_num], line_num,
                                      translations[line_num]),
                     comments, translations, keys \ {line_num})

\* CStyleCommentExtractor.replace_comments, the loop over
\* sorted(translations.items(), reverse=True); keys are the lines still to do.
\* comments is extract_comments(content) of the content the call was given:
\* the loop never assigns content, so every iteration extracts the same records.
\* A key with no record raises KeyError.
RECURSIVE CStyleReplaceLoop(_, _, _, _)
CStyleReplaceLoop(lines, comments, translations, keys) ==
    IF keys = {} THEN [raised |-> FALSE, lines |-> lines]
    ELSE LET line_num == Max(keys)
         IN  IF line_num \notin DOMAIN comments
             THEN [raised |-> TRUE, lines |-> lines]
             ELSE CStyleReplaceLoop(
                     CStyleReplaceOne(lines, comments[line_num], line_num,
                                      translations[line_num]),
                     comments, translations, keys \ {line_num})

\* CStyleCommentExtractor.replace_comments
CStyle_replace_comments(content, translations) ==
    LET r == CStyleReplaceLoop(Split(content), CStyle_extract_comments(content),
                               translations, DOMAIN translations)
    IN  [raised |-> r.raised, content |-> Join(r.lines)]

\* ------------------------------------------------------------------------
\* PythonCommentExtractor
\* ------------------------------------------------------------------------

Triple(q) == <<q, q, q>>

\* the closing offsets a triple quote opened at offset i can have
DocstringEnds(s, i) ==
    {j \in (i + 3)..(Len(s) - 3) : StartsAt(s, Triple(s[i + 1]), j)}

\* re.search(docstring_pattern, content[current_pos:]): <<start_pos, end_pos>>
\* of the leftmost non-greedy match, or <<>> when there is none
DocstringSearch(s, current_pos) ==
    LET cand == {i \in current_pos..(Len(s) - 6) :
                    /\ \E q \in {SQ, DQ} : StartsAt(s, Triple(q), i)
                    /\ DocstringEnds(s, i) # {}}
    IN  IF cand = {} THEN <<>>
        ELSE <<Min(cand), Min(DocstringEnds(s, Min(cand))) + 3>>

\* the matches of the while loop, each with the current_pos it was searched from
RECURSIVE DocstringMatches(_, _)
DocstringMatches(s, current_pos) ==
    LET m == DocstringSearch(s, current_pos)
    IN  IF m = <<>> THEN <<>>
        ELSE <<[start_pos |-> m[1], end_pos |-> m[2], current_pos |-> current_pos]>>
             \o DocstringMatches(s, m[2])

\* re.match(r'^[ \t]*["\']', group)
StartsWithQuote(group) ==
    LET k == RunLen(group, 1, {" ", "\t"})
    IN  k + 1 <= Len(group) /\ group[k + 1] \in {DQ, SQ}

\* the test that decides whether a triple-quoted match is recorded
PythonIsDocstring(content, m) ==
    LET prev_lines == Split(Take(content, m.start_pos))
        last_line == Strip(prev_lines[Len(prev_lines)])
    IN  /\ ~Python_is_in_string(Take(content, m.start_pos), m.start_pos)
        /\ \/ EndsWith(last_line, <<":">>)
           \/ EndsWith(last_line, <<"=">>)
           \/ LineOfPos(content, m.start_pos) = 1
           \/ StartsWithQuote(SubSeq(content, m.start_pos + 1, m.end_pos))

\* the matches recorded as docstrings
PythonDocstrings(content) ==
    SelectSeq(DocstringMatches(content, 0), LAMBDA m : PythonIsDocstring(content, m))

\* docstring_positions
PythonDocstringPositions(content) ==
    LET ds == PythonDocstrings(content)
    IN  UNION {ds[k].start_pos..(ds[k].end_pos - 1) : k \in DOMAIN ds}

PythonDocstringRecord(content, m) ==
    LET original == Strip(SubSeq(content, m.start_pos + 1, m.end_pos))
        prev_lines == Split(Take(content, m.start_pos))
        last == prev_lines[Len(prev_lines)]
    IN  [content  |-> Strip(SubSeq(original, 4, Len(original) - 3)),
         start    |-> Len(last) - Len(LStrip(last)),
         end      |-> m.end_pos - m.current_pos,
         original |-> original,
         type     |-> "docstring",
         extra    |-> [quote_type |-> Take(original, 3),
                       line_count |-> Count(original, NL) + 1]]

\* line.find('#')
FindHash(line) == Min({i \in 0..(Len(line) - 1) : line[i + 1] = "#"})

\* whether line i yields an inline record
PythonInlineKept(lines, i, positions) ==
    /\ \E k \in 1..Len(lines[i]) : lines[i][k] = "#"
    /\ LineOffset(lines, i) + FindHash(lines[i]) \notin positions
    /\ ~Python_is_in_string(Take(lines[i], FindHash(lines[i])), FindHash(lines[i]))
    /\ ~(i = 1 /\ StartsWith(Strip(lines[i]), <<"#", "!">>))
    /\ ~(i <= 2 /\ Contains(lines[i], <<"c", "o", "d", "i", "n", "g">>))

PythonInlineRecord(line, pos) ==
    [content  |-> Strip(Drop(line, pos + 1)),
     start    |-> pos,
     end      |-> Len(line),
     original |-> Drop(line, pos),
     type     |-> "inline",
     extra    |-> [has_code |-> Strip(Take(line, pos)) # <<>>]]

\* PythonCommentExtractor.extract_comments
Python_extract_comments(content) ==
    LET lines == Split(content)
        ds == PythonDocstrings(content)
        positions == PythonDocstringPositions(content)
        docLines == {LineOfPos(content, ds[k].start_pos) : k \in DOMAIN ds}
        inlineLines == {i \in 1..Len(lines) : PythonInlineKept(lines, i, positions)}
    IN  [L \in docLines \cup inlineLines |->
            IF L \in inlineLines
            THEN PythonInlineRecord(lines[L], FindHash(lines[L]))
            ELSE PythonDocstringRecord(content,
                    ds[Max({k \in DOMAIN ds : LineOfPos(content, ds[k].start_pos) = L})])]

\* one iteration of the loop of PythonCommentExtractor.replace_comments
PythonReplaceOne(lines, info, line_num, translation) ==
    IF info.type = "inline"
    THEN IF info.extra.has_code
         THEN [lines EXCEPT ![line_num] =
                  Take(lines[line_num], info.start) \o <<"#", " ">> \o Strip(translation)]
         ELSE [lines EXCEPT ![line_num] =
                  Spaces(info.start) \o <<"#", " ">> \o Strip(translation)]
    ELSE LET indentation == Spaces(info.start)
             parts == Split(translation)
             formatted == <<indentation \o info.extra.quote_type>>
                          \o [k \in 1..Len(parts) |-> indentation \o Strip(parts[k])]
                          \o <<indentation \o info.extra.quote_type>>
         IN  SliceAssign(lines, line_num - 1, line_num - 1 + info.extra.line_count, formatted)

\* the loop of PythonCommentExtractor.replace_comments (see CStyleReplaceLoop)
RECURSIVE PythonReplaceLoop(_, _, _, _)
PythonReplaceLoop(lines, comments, translations, keys) ==
    IF keys = {} THEN [raised |-> FALSE, lines |-> lines]
    ELSE LET line_num == Max(keys)
         IN  IF line_num \notin DOMAIN comments
             THEN [raised |-> TRUE, lines |-> lines]
             ELSE PythonReplaceLoop(
                     PythonReplaceOne(lines, comments[line_num], line_num,
                                      translations[line_num]),
                     comments, translations, keys \ {line_num})

\* PythonCommentExtractor.replace_comments
Python_replace_comments(content, translations) ==
    LET r == PythonReplaceLoop(Split(content), Python_extract_comments(content),
                               translations, DOMAIN translations)
    IN  [raised |-> r.raised, content |-> Join(r.lines)]

\* ------------------------------------------------------------------------
\* FileDetector: the registry and the per-file entry points
\* ------------------------------------------------------------------------

\* FileDetector.SUPPORTED_EXTENSIONS, as written in the source
SUPPORTED_EXTENSIONS == {<<".", "p", "y">>, <<".", "c", "p", "p">>, <<"c">>, <<".", "j", "s">>}

\* the keys of FileDetector.EXTRACTORS
CStyleExtensions == {<<".", "c">>, <<".", "c", "p", "p">>, <<".", "j", "s">>}

PythonExtensions == {<<".", "p", "y">>}

EXTRACTORS == CStyleExtensions \cup PythonExtensions

\* EXTRACTORS[file_extension].extract_comments(content)
ExtractorExtract(file_extension, text) ==
    IF file_extension \in PythonExtensions
    THEN Python_extract_comments(text)
    ELSE CStyle_extract_comments(text)

\* EXTRACTORS[file_extension].replace_comments(content, translations)
ExtractorReplace(file_extension, text, tr) ==
    IF file_extension \in PythonExtensions
    THEN Python_replace_comments(text, tr)
    ELSE CStyle_replace_comments(text, tr)

\* the offset of the last c in p, or -1 (str.rfind)
RFind(p, c) == IF \E i \in 1..Len(p) : p[i] = c
               THEN Max({i \in 1..Len(p) : p[i] = c}) - 1
               ELSE -1

\* os.path.splitext(file_path)[1]: the text from the last dot of the last
\* path component, unless only dots precede it there
SplitextExt(p) ==
    LET sepIndex == RFind(p, "/")
        dotIndex == RFind(p, ".")
    IN  IF dotIndex > sepIndex
           /\ \E k \in (sepIndex + 1)..(dotIndex - 1) : p[k + 1] # "."
        THEN Drop(p, dotIndex)
        ELSE <<>>

\* FileDetector._is_code_file
is_code_file(file_path) == SplitextExt(file_path) \in SUPPORTED_EXTENSIONS

\* os.walk(target_path): the files of fs in the directory and below it
WalkFiles(files, target_path) ==
    {f \in files : StartsWith(f, target_path \o <<"/">>)}

\* FileDetector.detect_code_files (the list as a set: os.walk names a file once)
detect_code_files(files, target_path) ==
    IF target_path \in files
    THEN IF is_code_file(target_path) THEN {target_path} ELSE {}
    ELSE {f \in WalkFiles(files, target_path) : is_code_file(f)}

\* ------------------------------------------------------------------------
\* LanguageDetector
\* ------------------------------------------------------------------------

\* None, and the empty string: the two values Python's `not x` accepts here
NoneValue == <<>>

\* a character outside ASCII is written as its code point: u4f60 and u597d are
\* CJK Unified Ideographs (PATTERNS['zh']), u306e is Hiragana and u30ab is
\* Katakana (PATTERNS['jp']), u00e9 is a Latin letter outside ASCII; u0060 is
\* the grave accent of string.punctuation
CJKIdeographs == {"u4f60", "u597d"}

Kana == {"u306e", "u30ab"}

LowerCase == {"a", "b", "c", "d", "e", "f", "g", "h", "i", "j", "k", "l", "m",
              "n", "o", "p", "q", "r", "s", "t", "u", "v", "w", "x", "y", "z"}

UpperCase == {"A", "B", "C", "D", "E", "F", "G", "H", "I", "J", "K", "L", "M",
              "N", "O", "P", "Q", "R", "S", "T", "U", "V", "W", "X", "Y", "Z"}

Digits == {"0", "1", "2", "3", "4", "5", "6", "7", "8", "9"}

Punctuation == {"!", DQ, "#", "$", "%", "&", SQ, "(", ")", "*", "+", ",", "-",
                ".", "/", ":", ";", "<", "=", ">", "?", "@", "[", BS, "]", "^",
                "_", "u0060", "{", "|", "}", "~"}

\* allowed_chars of is_english
AllowedChars == LowerCase \cup UpperCase \cup Digits \cup Punctuation
                \cup {" ", "\n", "\t", "\r"}

\* str.lower() of one character
LowerChar(c) ==
    IF c \in UpperCase
    THEN CHOOSE l \in LowerCase :
            \E k \in 1..26 :
               /\ <<"A", "B", "C", "D", "E", "F", "G", "H", "I", "J", "K", "L", "M",
                    "N", "O", "P", "Q", "R", "S", "T", "U", "V", "W", "X", "Y", "Z">>[k] = c
               /\ <<"a", "b", "c", "d", "e", "f", "g", "h", "i", "j", "k", "l", "m",
                    "n", "o", "p", "q", "r", "s", "t", "u", "v", "w", "x", "y", "z">>[k] = l
    ELSE c

\* str.lower()
Lower(s) == [i \in 1..Len(s) |-> LowerChar(s[i])]

\* the length of the longest run of characters of Class that ends s
TrailingRun(s, Class) ==
    IF \A i \in 1..Len(s) : s[i] \in Class THEN Len(s)
    ELSE Len(s) - Max({i \in 1..Len(s) : s[i] \notin Class})

\* re.sub(r'^[\/\*\s#]+|[\*\/\s]+$', '', text)
StripCommentMarkers(text) ==
    LET rest == Drop(text, RunLen(text, 1, {"/", "*", "#"} \cup Whitespace))
    IN  Take(rest, Len(rest) - TrailingRun(rest, {"*", "/"} \cup Whitespace))

\* LanguageDetector.is_english
is_english(text) == \A i \in 1..Len(Strip(text)) : Strip(text)[i] \in AllowedChars

\* a detect_language that looks for kana before ideographs
detect_language_KanaFirst(text) ==
    LET t == Strip(StripCommentMarkers(text))
    IN  IF t = <<>> THEN NoneValue
        ELSE IF \E i \in 1..Len(t) : t[i] \in Kana THEN <<"j", "p">>
        ELSE IF \E i \in 1..Len(t) : t[i] \in CJKIdeographs THEN <<"z", "h">>
        ELSE IF is_english(t) THEN <<"e", "n">>
        ELSE NoneValue

\* LanguageDetector.detect_language: a language code, or NoneValue
detect_language(text) ==
    LET t == Strip(StripCommentMarkers(text))
    IN  IF t = <<>> THEN NoneValue
        ELSE IF \E i \in 1..Len(t) : t[i] \in CJKIdeographs THEN <<"z", "h">>
        ELSE IF \E i \in 1..Len(t) : t[i] \in Kana THEN <<"j", "p">>
        ELSE IF is_english(t) THEN <<"e", "n">>
        ELSE NoneValue

\* a should_translate that compares the setting as it is written
should_translate_CaseSensitive(text, language) ==
    IF language = NoneValue \/ Lower(language) = <<"a", "n", "y">> THEN TRUE
    ELSE detect_language(text) = language

\* LanguageDetector.should_translate
should_translate(text, language) ==
    IF language = NoneValue \/ Lower(language) = <<"a", "n", "y">> THEN TRUE
    ELSE detect_language(text) = Lower(language)

\* ------------------------------------------------------------------------
\* PromptTemplate and the translators
\* ------------------------------------------------------------------------

\* str.replace(sub, ''), from index i (1-based)
RECURSIVE RemoveAll(_, _, _)
RemoveAll(s, sub, i) ==
    IF i > Len(s) THEN <<>>
    ELSE IF StartsAt(s, sub, i - 1) THEN RemoveAll(s, sub, i + Len(sub))
    ELSE <<s[i]>> \o RemoveAll(s, sub, i + 1)

\* PromptTemplate.clean_comment_markers
clean_comment_markers(text) ==
    LET t1 == RemoveAll(text, <<"#">>, 1)
        t2 == RemoveAll(t1, <<"/", "/">>, 1)
        t3 == RemoveAll(t2, Triple(DQ), 1)
        t4 == RemoveAll(t3, Triple(SQ), 1)
        t5 == RemoveAll(t4, <<"/", "*">>, 1)
        t6 == RemoveAll(t5, <<"*", "/">>, 1)
    IN  Strip(t6)

\* PromptTemplate.restore_comment_format
restore_comment_format(original, translated) ==
    IF StartsWith(original, <<"#">>) THEN <<"#", " ">> \o translated
    ELSE IF StartsWith(original, <<"/", "/">>) THEN <<"/", "/", " ">> \o translated
    ELSE IF StartsWith(original, Triple(DQ)) \/ StartsWith(original, Triple(SQ))
         THEN LET marker == IF StartsWith(original, Triple(DQ)) THEN Triple(DQ) ELSE Triple(SQ)
              IN  marker \o <<NL>> \o translated \o <<NL>> \o marker
    ELSE IF StartsWith(original, <<"/", "*">>)
         THEN <<"/", "*", NL>> \o translated \o <<NL, "*", "/">>
    ELSE translated

\* OpenAITranslator.translate_single when the API call returned response
translate_single_ok(text, response) == restore_comment_format(text, Strip(response))

\* OpenAITranslator.translate_single when the try block raised
translate_single_failed(text) == text

\* ------------------------------------------------------------------------
\* CodeCommentTranslator.translate_file: the pure parts
\* ------------------------------------------------------------------------

\* the elements of a set of numbers in ascending order
RECURSIVE Ascending(_)
Ascending(S) == IF S = {} THEN <<>> ELSE <<Min(S)>> \o Ascending(S \ {Min(S)})

\* the keys of extract_comments in dict order: a line first keyed by the
\* multiline or docstring pass keeps its place when the inline pass assigns it
ExtractorKeyOrder(file_extension, text) ==
    LET lines == Split(text)
        first == IF file_extension \in PythonExtensions
                 THEN {LineOfPos(text, PythonDocstrings(text)[k].start_pos) :
                          k \in DOMAIN PythonDocstrings(text)}
                 ELSE {LineOfPos(text, CStyleMultiline(text)[k][1]) :
                          k \in DOMAIN CStyleMultiline(text)}
    IN  Ascending(first) \o Ascending(DOMAIN ExtractorExtract(file_extension, text) \ first)

\* comments_to_translate, as the sequence of its keys
CommentsToTranslate(file_extension, text, language) ==
    SelectSeq(ExtractorKeyOrder(file_extension, text),
              LAMBDA L : should_translate(ExtractorExtract(file_extension, text)[L].content,
                                          language))

\* processed_translations[line_num] for one translated comment
ProcessTranslation(original_comment, translation) ==
    IF original_comment.type = "inline" /\ Count(translation, NL) > 0
    THEN LET first_line == Strip(Split(translation)[1])
             original_content == Strip(original_comment.original)
             original_markers ==
                 IF StartsWith(original_content, <<"/", "/">>) THEN <<"/", "/">>
                 ELSE IF StartsWith(original_content, <<"#">>) THEN <<"#">>
                 ELSE IF StartsWith(original_content, <<"/", "*">>) THEN <<"/", "*">>
                 ELSE <<>>
         IN  IF original_markers # <<>>
             THEN original_markers \o <<" ">> \o first_line
             ELSE first_line
    ELSE translation

\* processed_translations
ProcessedTranslations(recs, translated_comments) ==
    [L \in DOMAIN translated_comments |-> ProcessTranslation(recs[L], translated_comments[L])]

\* ------------------------------------------------------------------------
\* Inputs of the model
\* ------------------------------------------------------------------------

\* the most tokens a file content is made of
MaxTokens == 4

CTokens == {<<"/", "*">>, <<"*", "/">>, <<"/", "/">>, <<"a">>, <<" ">>, <<NL>>, <<DQ>>, <<BS>>}

PyTokens == {Triple(DQ), <<"#">>, <<"a">>, <<" ">>, <<NL>>, <<":">>, <<DQ>>}

\* every concatenation of at most n tokens of T
RECURSIVE TokenStrings(_, _)
TokenStrings(T, n) ==
    IF n = 0 THEN {<<>>}
    ELSE LET shorter == TokenStrings(T, n - 1)
         IN  shorter \cup {c \o t : c \in shorter, t \in T}

\* lines that may begin with the # of a preprocessor directive
DirectiveLines == TokenStrings({<<"#">>, <<"/", "/">>, <<"a">>}, MaxTokens)

\* the most lines of a file built from whole lines
MaxLines == 2

\* every text of 1..n lines, each of them one of Shapes
RECURSIVE LineTexts(_, _)
LineTexts(Shapes, n) ==
    IF n = 1 THEN Shapes
    ELSE LET shorter == LineTexts(Shapes, n - 1)
         IN  shorter \cup {t \o <<NL>> \o l : t \in shorter, l \in Shapes}

\* a line that opens a multiline comment, and a line that closes it and holds
\* a second one
CTwoOnALine == {<<"/", "*", "a">>, <<"a", "*", "/", " ", "/", "*", "a", "*", "/">>}

\* the same with docstrings
PyTwoOnALine ==
    {<<DQ, DQ, DQ, "a">>, <<"a", DQ, DQ, DQ, " ", DQ, DQ, DQ, "a", DQ, DQ, DQ>>}

\* the files the model reads: an extension and a content
Files ==
    ({<<".", "c">>} \X TokenStrings(CTokens, MaxTokens))
    \cup ({<<".", "p", "y">>} \X TokenStrings(PyTokens, MaxTokens))
    \cup ({<<".", "t", "x", "t">>} \X TokenStrings({<<"/", "/">>, <<"a">>}, 2))
    \cup ({<<".", "c">>} \X DirectiveLines)
    \cup ({<<".", "c">>} \X LineTexts(CTwoOnALine, MaxLines))
    \cup ({<<".", "p", "y">>} \X LineTexts(PyTwoOnALine, MaxLines))

\* the texts a caller passes as translations
Translations == {<<"b">>, <<" ", "b", NL, "c", " ">>}

\* the most files a directory tree holds
MaxFiles == 3

\* the directories of the tree: the root and one below it whose name has a dot
Dirs == {<<"/", "r">>, <<"/", "r", "/", "d", ".", "c">>}

FileNames ==
    {<<"a", ".", "p", "y">>, <<"a", ".", "c">>, <<"a", ".", "c", "p", "p">>,
     <<"a", ".", "j", "s">>, <<"a", ".", "t", "x", "t">>, <<"c">>, <<".", "c">>,
     <<"a", ".", "p", "y", ".", "h">>}

Paths == {d \o <<"/">> \o n : d \in Dirs, n \in FileNames}

VARIABLES
    fs,             \* the paths of the files that exist
    target_path,    \* the path handed to detect_code_files
    detected,       \* the files detect_code_files returned
    ext,            \* os.path.splitext(file_path)[1] of the file
    content,        \* the content the file had at the start
    disk,           \* the content of the file now
    pc,             \* where the caller is
    comments,       \* the records of the last extract_comments
    translations,   \* the translations handed to replace_comments
    ret,            \* what the last call returned
    source_language,   \* translate_file: self.source_language
    todo,           \* translate_batch: the keys of comments still to iterate
    translated,     \* translate_batch: translated_comments
    api_failed,     \* the keys whose translate_single took its except branch
    log,            \* the calls of the translation client and the writes of the file, in order
    max_workers,    \* translate_all_files: self.max_workers
    detected_files, \* translate_all_files: self.detected_files
    queue,          \* the executor's work queue: submitted, not yet taken by a worker
    running,        \* the files whose translate_file a worker is running
    results,        \* the finished futures: file |-> how its translate_file ended
    runs,           \* file |-> how many times translate_file was started on it
    yielded,        \* the futures as_completed has yielded
    completed,      \* translate_all_files: completed
    failed          \* translate_all_files: failed

fileVars == <<ext, content, disk, comments, translations, ret>>

walkVars == <<fs, target_path, detected>>

pipeVars == <<source_language, todo, translated, api_failed, log>>

poolVars == <<max_workers, detected_files, queue, running, results, runs, yielded, completed, failed>>

vars == <<pc, fileVars, walkVars, pipeVars, poolVars>>

\* a mapping with no keys (an empty dict)
Empty == <<>>

InitFile ==
    /\ \E f \in Files : ext = f[1] /\ content = f[2] /\ disk = f[2]
    /\ comments = Empty
    /\ translations = Empty
    /\ ret = "none"

\* --- FileDetector called on one file -------------------------------------

\* no directory tree: the state of the walker where it plays no part
NoWalk == fs = {} /\ target_path = <<>> /\ detected = {}

\* no translate_file under way
NoPipe ==
    /\ source_language = NoneValue /\ todo = <<>> /\ translated = Empty
    /\ api_failed = {} /\ log = <<>>

\* no worker pool
NoPool ==
    /\ max_workers = 1 /\ detected_files = <<>> /\ queue = <<>> /\ running = {}
    /\ results = Empty /\ runs = Empty /\ yielded = {} /\ completed = 0 /\ failed = 0

InitFD == InitFile /\ NoWalk /\ NoPipe /\ NoPool /\ pc = "idle"

\* an extract_comments that reads the file through a handle it keeps open: the
\* second call reads from the end of the file
FD_extract_comments_ReadsOnce ==
    /\ pc \in {"idle", "extracted"}
    /\ comments' = IF ext \notin EXTRACTORS THEN Empty
                   ELSE ExtractorExtract(ext, IF pc = "idle" THEN disk ELSE <<>>)
    /\ pc' = IF pc = "idle" THEN "extracted" ELSE "extracted_again"
    /\ ret' = "returned"
    /\ UNCHANGED <<ext, content, disk, translations, walkVars, pipeVars, poolVars>>

\* FileDetector.extract_comments(file_path); the caller may call it a second time
FD_extract_comments ==
    /\ pc \in {"idle", "extracted"}
    /\ comments' = IF ext \notin EXTRACTORS THEN Empty ELSE ExtractorExtract(ext, disk)
    /\ pc' = IF pc = "idle" THEN "extracted" ELSE "extracted_again"
    /\ ret' = "returned"
    /\ UNCHANGED <<ext, content, disk, translations, walkVars, pipeVars, poolVars>>

\* a replace_comments that falls back on the C-style extractor for an
\* extension without a registered one
FD_replace_comments_DefaultExtractor(tr) ==
    /\ pc = "extracted"
    /\ translations' = tr
    /\ pc' = "replaced"
    /\ LET r == ExtractorReplace(ext, disk, tr)
       IN  IF r.raised
           THEN ret' = FALSE /\ disk' = disk
           ELSE ret' = TRUE /\ disk' = r.content
    /\ UNCHANGED <<ext, content, comments, walkVars, pipeVars, poolVars>>

\* FileDetector.replace_comments(file_path, translations): the file is written
\* only when the extractor's replace_comments did not raise
FD_replace_comments(tr) ==
    /\ pc = "extracted"
    /\ translations' = tr
    /\ pc' = "replaced"
    /\ IF ext \notin EXTRACTORS
       THEN ret' = FALSE /\ disk' = disk
       ELSE LET r == ExtractorReplace(ext, disk, tr)
            IN  IF r.raised
                THEN ret' = FALSE /\ disk' = disk
                ELSE ret' = TRUE /\ disk' = r.content
    /\ UNCHANGED <<ext, content, comments, walkVars, pipeVars, poolVars>>

\* every mapping from some lines of the file to a translation
TranslationMaps(text) ==
    UNION {[K -> Translations] : K \in SUBSET (1..Len(Split(text)))}

NextFD ==
    \/ FD_extract_comments
    \/ \E tr \in TranslationMaps(disk) : FD_replace_comments(tr)

SpecFD == InitFD /\ [][NextFD]_vars

\* --- the file walker -------------------------------------------------------

\* no file being read: the state of the per-file variables where they play no part
NoFile ==
    /\ ext = <<>> /\ content = <<>> /\ disk = <<>>
    /\ comments = Empty /\ translations = Empty /\ ret = "none"

InitWalk ==
    /\ NoFile /\ NoPipe /\ NoPool
    /\ pc = "idle"
    /\ fs \in {F \in SUBSET Paths : Cardinality(F) <= MaxFiles}
    /\ target_path \in Dirs \cup Paths
    /\ detected = {}

\* FileDetector.detect_code_files(target_path)
Detect ==
    /\ pc = "idle"
    /\ detected' = detect_code_files(fs, target_path)
    /\ pc' = "detected"
    /\ UNCHANGED <<fs, target_path, fileVars, pipeVars, poolVars>>

NextWalk == Detect

SpecWalk == InitWalk /\ [][NextWalk]_vars

\* --- translate_file on one file ------------------------------------------

CLineShapes ==
    {<<"x">>,
     <<"/", "/", "a">>,
     <<"x", " ", "/", "/", "a">>,
     <<"/", "/", "u4f60">>,
     <<"/", "*", "a", "*", "/">>,
     <<"x", " ", "/", "*", "a", "*", "/">>,
     <<"x", " ", "/", "*", "u4f60", "*", "/">>,
     <<"/", "*", "a">>,
     <<"a", "*", "/", " ", "/", "/", "a">>}

PyLineShapes ==
    {<<"x">>,
     <<"#", "a">>,
     <<"x", " ", "#", "a">>,
     <<"#", "u4f60">>,
     Triple(DQ) \o <<"a">> \o Triple(DQ),
     Triple(DQ) \o <<"a">>,
     <<"a">> \o Triple(DQ) \o <<" ", "#", "a">>}

\* the files translate_file is run on
PipeFiles ==
    ({<<".", "c">>} \X LineTexts(CLineShapes, MaxLines))
    \cup ({<<".", "p", "y">>} \X LineTexts(PyLineShapes, MaxLines))
    \cup ({<<".", "t", "x", "t">>} \X {<<"/", "/", "a">>})

\* the values of translation.source_language the constructor keeps
SourceLanguages == {NoneValue, <<"z", "h">>}

\* what the API answers
Responses == {<<"b">>, <<" ", "b", NL, "c", " ">>}

Event(ev, line, text) == [ev |-> ev, line |-> line, text |-> text]

Init ==
    /\ \E f \in PipeFiles : ext = f[1] /\ content = f[2] /\ disk = f[2]
    /\ comments = Empty /\ translations = Empty /\ ret = "none"
    /\ NoWalk /\ NoPool
    /\ source_language \in SourceLanguages
    /\ todo = <<>> /\ translated = Empty /\ api_failed = {} /\ log = <<>>
    /\ pc = "tf_start"

\* a translate_file without the two early returns: with nothing to translate
\* it goes on to translate_batch and to replace_comments
TF_extract_NoEarlyReturn ==
    /\ pc = "tf_start"
    /\ comments' = IF ext \notin EXTRACTORS THEN Empty ELSE ExtractorExtract(ext, disk)
    /\ todo' = IF ext \notin EXTRACTORS THEN <<>>
               ELSE CommentsToTranslate(ext, disk, source_language)
    /\ pc' = "tf_batch"
    /\ UNCHANGED <<ext, content, disk, translations, ret, source_language, translated,
                   api_failed, log, walkVars, poolVars>>

\* translate_file up to the call of translate_batch: the comments are
\* extracted and filtered; with nothing to translate it returns True
TF_extract ==
    /\ pc = "tf_start"
    /\ LET recs == IF ext \notin EXTRACTORS THEN Empty ELSE ExtractorExtract(ext, disk)
           keys == IF ext \notin EXTRACTORS THEN <<>>
                   ELSE CommentsToTranslate(ext, disk, source_language)
       IN  /\ comments' = recs
           /\ todo' = keys
           /\ IF keys = <<>>
              THEN pc' = "tf_done" /\ ret' = TRUE
              ELSE pc' = "tf_batch" /\ ret' = ret
    /\ UNCHANGED <<ext, content, disk, translations, source_language, translated,
                   api_failed, log, walkVars, poolVars>>

\* translate_batch takes the next comment and translate_single sends its
\* marker-free text to the API
TS_call ==
    /\ pc = "tf_batch"
    /\ todo # <<>>
    /\ log' = Append(log, Event("call", Head(todo),
                                clean_comment_markers(comments[Head(todo)].content)))
    /\ pc' = "ts_waiting"
    /\ UNCHANGED <<fileVars, source_language, todo, translated, api_failed, walkVars, poolVars>>

\* a translate_batch that rewrites the file after each translation it gets
TS_return_WritesFile(response) ==
    /\ pc = "ts_waiting"
    /\ LET line_num == Head(todo)
           result == translate_single_ok(comments[line_num].content, response)
           r == ExtractorReplace(ext, disk, (line_num :> result))
       IN  /\ translated' = translated @@ (line_num :> result)
           /\ log' = Append(Append(log, Event("return", line_num, result)),
                            Event("write", 0, r.content))
           /\ disk' = r.content
    /\ todo' = Tail(todo)
    /\ pc' = "tf_batch"
    /\ UNCHANGED <<ext, content, comments, translations, ret, source_language,
                   api_failed, walkVars, poolVars>>

\* the API answers and translate_single returns the restored translation
TS_return(response) ==
    /\ pc = "ts_waiting"
    /\ LET line_num == Head(todo)
           result == translate_single_ok(comments[line_num].content, response)
       IN  /\ translated' = translated @@ (line_num :> result)
           /\ log' = Append(log, Event("return", line_num, result))
    /\ todo' = Tail(todo)
    /\ pc' = "tf_batch"
    /\ UNCHANGED <<fileVars, source_language, api_failed, walkVars, poolVars>>

\* the API call raises and translate_single returns the text it was given
TS_raise ==
    /\ pc = "ts_waiting"
    /\ LET line_num == Head(todo)
           result == translate_single_failed(comments[line_num].content)
       IN  /\ translated' = translated @@ (line_num :> result)
           /\ log' = Append(log, Event("return", line_num, result))
           /\ api_failed' = api_failed \cup {line_num}
    /\ todo' = Tail(todo)
    /\ pc' = "tf_batch"
    /\ UNCHANGED <<fileVars, source_language, walkVars, poolVars>>

\* translate_file after translate_batch: the translations are processed and
\* FileDetector.replace_comments rewrites the file
TF_replace ==
    /\ pc = "tf_batch"
    /\ todo = <<>>
    /\ LET processed == ProcessedTranslations(comments, translated)
           r == ExtractorReplace(ext, disk, processed)
       IN  /\ translations' = processed
           /\ IF r.raised
              THEN ret' = FALSE /\ disk' = disk /\ log' = log
              ELSE /\ ret' = TRUE
                   /\ disk' = r.content
                   /\ log' = Append(log, Event("write", 0, r.content))
    /\ pc' = "tf_done"
    /\ UNCHANGED <<ext, content, comments, source_language, todo, translated,
                   api_failed, walkVars, poolVars>>

Next ==
    \/ TF_extract
    \/ TS_call
    \/ \E response \in Responses : TS_return(response)
    \/ TS_raise
    \/ TF_replace

Spec == Init /\ [][Next]_vars

\* --- translate_all_files ---------------------------------------------------

\* the most files translate_all_files is handed
MaxDetected == 3

\* the most worker threads of the executor
MaxWorkers == 2

\* how a run of translate_file ends: it returns True, returns False, or raises
Outcomes == {"True", "False", "raised"}

\* the files are named by their place in self.detected_files
InitPool ==
    /\ NoFile /\ NoWalk /\ NoPipe
    /\ max_workers \in 1..MaxWorkers
    /\ detected_files \in {[i \in 1..n |-> i] : n \in 0..MaxDetected}
    /\ queue = <<>> /\ running = {}
    /\ results = Empty /\ runs = Empty /\ yielded = {}
    /\ completed = 0 /\ failed = 0
    /\ pc = "submit"

\* the files submitted so far
Submitted == {queue[k] : k \in DOMAIN queue} \cup running \cup DOMAIN results

\* executor.submit(self.translate_file, file_path) for the next file of the
\* dict comprehension; after the last one the loop over as_completed starts
Submit ==
    /\ pc = "submit"
    /\ IF Cardinality(Submitted) < Len(detected_files)
       THEN /\ queue' = Append(queue, detected_files[Cardinality(Submitted) + 1])
            /\ pc' = pc
       ELSE /\ queue' = queue
            /\ pc' = "collect"
    /\ UNCHANGED <<fileVars, walkVars, pipeVars, max_workers, detected_files, running,
                   results, runs, yielded, completed, failed>>

\* a worker thread takes the oldest work item and starts translate_file on it;
\* the executor has at most max_workers threads
WorkerStart ==
    /\ queue # <<>>
    /\ Cardinality(running) < max_workers
    /\ running' = running \cup {Head(queue)}
    /\ runs' = IF Head(queue) \in DOMAIN runs
               THEN [runs EXCEPT ![Head(queue)] = @ + 1]
               ELSE runs @@ (Head(queue) :> 1)
    /\ queue' = Tail(queue)
    /\ UNCHANGED <<pc, fileVars, walkVars, pipeVars, max_workers, detected_files,
                   results, yielded, completed, failed>>

\* the translate_file of a worker ends and its future is set
WorkerFinish(file_path, outcome) ==
    /\ file_path \in running
    /\ running' = running \ {file_path}
    /\ results' = results @@ (file_path :> outcome)
    /\ UNCHANGED <<pc, fileVars, walkVars, pipeVars, max_workers, detected_files,
                   queue, runs, yielded, completed, failed>>

\* a loop body that counts a file as failed only when translate_file returned False
Collect_RaiseNotCounted(file_path) ==
    /\ pc = "collect"
    /\ file_path \in DOMAIN results \ yielded
    /\ yielded' = yielded \cup {file_path}
    /\ completed' = completed + 1
    /\ failed' = IF results[file_path] = "False" THEN failed + 1 ELSE failed
    /\ UNCHANGED <<pc, fileVars, walkVars, pipeVars, max_workers, detected_files,
                   queue, running, results, runs>>

\* one turn of the loop over as_completed: a finished future not yet yielded
\* is yielded and counted
Collect(file_path) ==
    /\ pc = "collect"
    /\ file_path \in DOMAIN results \ yielded
    /\ yielded' = yielded \cup {file_path}
    /\ completed' = completed + 1
    /\ failed' = IF results[file_path] = "True" THEN failed ELSE failed + 1
    /\ UNCHANGED <<pc, fileVars, walkVars, pipeVars, max_workers, detected_files,
                   queue, running, results, runs>>

\* as_completed is exhausted, the executor is shut down and the totals are printed
Finish ==
    /\ pc = "collect"
    /\ yielded = {detected_files[k] : k \in DOMAIN detected_files}
    /\ pc' = "done"
    /\ UNCHANGED <<fileVars, walkVars, pipeVars, poolVars>>

NextPool ==
    \/ Submit
    \/ WorkerStart
    \/ \E file_path \in running, outcome \in Outcomes : WorkerFinish(file_path, outcome)
    \/ \E file_path \in DOMAIN results : Collect(file_path)
    \/ Finish

SpecPool == InitPool /\ [][NextPool]_vars

\* --- LanguageDetector called on one text -----------------------------------

\* the most tokens a text handed to the detector is made of
MaxTextTokens == 4

\* a Latin letter, an ideograph, a kana, a letter outside ASCII, and
\* characters the detector strips
TextTokens == {<<"a">>, <<"u4f60">>, <<"u306e">>, <<"u00e9">>, <<"/">>, <<"#">>, <<" ">>}

\* the settings should_translate is handed: unset, the wildcard, and language
\* codes in either letter case, one of them a code detect_language never returns
LanguageSettings ==
    {NoneValue, <<"a", "n", "y">>, <<"A", "n", "y">>, <<"e", "n">>, <<"Z", "H">>,
     <<"j", "p">>, <<"f", "r">>}

\* the text is kept in content, the answer in ret
InitLD ==
    /\ ext = <<>> /\ disk = <<>> /\ comments = Empty /\ translations = Empty
    /\ content \in TokenStrings(TextTokens, MaxTextTokens)
    /\ ret = "none"
    /\ NoWalk /\ NoPool
    /\ source_language \in LanguageSettings
    /\ todo = <<>> /\ translated = Empty /\ api_failed = {} /\ log = <<>>
    /\ pc = "idle"

\* LanguageDetector.detect_language(text)
LD_detect_language ==
    /\ pc = "idle"
    /\ ret' = detect_language(content)
    /\ pc' = "detected_language"
    /\ UNCHANGED <<ext, content, disk, comments, translations, walkVars, pipeVars, poolVars>>

\* LanguageDetector.should_translate(text, source_language)
LD_should_translate ==
    /\ pc = "idle"
    /\ ret' = should_translate(content, source_language)
    /\ pc' = "decided"
    /\ UNCHANGED <<ext, content, disk, comments, translations, walkVars, pipeVars, poolVars>>

NextLD == LD_detect_language \/ LD_should_translate

SpecLD == InitLD /\ [][NextLD]_vars

\* ------------------------------------------------------------------------
\* Claims about FileDetector on one file (SpecFD)
\* ------------------------------------------------------------------------

\* the <<start, end>> offsets in text of the `original` of the record of line L
CommentSpan(e, text, L) ==
    LET lines == Split(text)
        info == ExtractorExtract(e, text)[L]
    IN  IF info.type = "inline"
        THEN <<LineOffset(lines, L) + info.start, LineOffset(lines, L) + Len(lines[L])>>
        ELSE IF info.type = "multiline" THEN info.extra.positions
        ELSE LET ds == PythonDocstrings(text)
                 k == Max({j \in DOMAIN ds : LineOfPos(text, ds[j].start_pos) = L})
             IN  <<ds[k].start_pos, ds[k].end_pos>>

\* the parts of text outside the spans, in order: before the first span,
\* between two spans, after the last
RECURSIVE OutsideParts(_, _, _)
OutsideParts(text, spans, from) ==
    IF spans = {} THEN <<Drop(text, from)>>
    ELSE LET sp == CHOOSE x \in spans : \A y \in spans : x[1] <= y[1]
         IN  <<SubSeq(text, from + 1, sp[1])>>
             \o OutsideParts(text, spans \ {sp}, IF sp[2] > from THEN sp[2] ELSE from)

\* r ends with the last part and holds the parts before it in order
RECURSIVE HoldsInOrder(_, _)
HoldsInOrder(r, parts) ==
    IF Len(parts) = 1 THEN EndsWith(r, parts[1])
    ELSE \E i \in 0..Len(r) :
            /\ StartsAt(r, parts[1], i)
            /\ HoldsInOrder(Drop(r, i + Len(parts[1])), Tail(parts))

\* new differs from old only inside the spans
ChangedOnlyInside(old, new, spans) ==
    LET parts == OutsideParts(old, spans, 0)
    IN  /\ StartsWith(new, parts[1])
        /\ \/ Len(parts) = 1 /\ new = parts[1]
           \/ Len(parts) > 1 /\ HoldsInOrder(Drop(new, Len(parts[1])), Tail(parts))

\* C1: replace(content, translations), for translations keyed by lines that
\* carry a record, changes the content only inside the spans of the replaced
\* comments' original text; everything outside them (code on the line where a
\* multiline comment or docstring starts or ends, indentation) is unchanged.
C1_ReplaceChangesOnlyCommentSpans ==
    (/\ pc = "replaced"
     /\ ext \in EXTRACTORS
     /\ DOMAIN translations \subseteq DOMAIN comments)
    => /\ ret = TRUE
       /\ ChangedOnlyInside(content, disk,
             {CommentSpan(ext, content, L) : L \in DOMAIN translations})

\* offset pos of text comes after a // of its own line that is outside
\* string literals and outside multiline comments
InsideLineComment(text, pos) ==
    LET lines == Split(text)
        L == LineOfPos(text, pos)
    IN  \E p \in CStyleInlineKept(lines, L, CStyleMultilinePositions(text)) :
           LineOffset(lines, L) + p < pos

\* C2: in the C-style extractor the line on which a multiline comment (outside
\* string literals and not itself inside a line comment) starts is keyed by
\* the multiline record, also when a // follows its closing */ on that line,
\* and no inline record starts at a // that lies inside a multiline span.
C2_MultilineWinsItsLine ==
    (pc = "extracted" /\ ext \in CStyleExtensions)
    => LET ms == CStyleMultiline(content)
           lines == Split(content)
       IN  /\ \A k \in DOMAIN ms :
                ~InsideLineComment(content, ms[k][1])
                => /\ LineOfPos(content, ms[k][1]) \in DOMAIN comments
                   /\ comments[LineOfPos(content, ms[k][1])].type = "multiline"
           /\ \A L \in DOMAIN comments :
                comments[L].type = "inline"
                => LineOffset(lines, L) + comments[L].start
                      \notin CStyleMultilinePositions(content)

\* the docstring heuristic as the specification words it, for the
\* triple-quoted match m
LooksLikeStatement(text, m) ==
    LET prev_lines == Split(Take(text, m.start_pos))
        before == prev_lines[Len(prev_lines)]
    IN  \/ EndsWith(Strip(before), <<":">>)
        \/ EndsWith(Strip(before), <<"=">>)
        \/ LineOfPos(text, m.start_pos) = 1
        \/ Strip(before) = <<>>

\* C3: the Python-style extractor records a triple-quoted string as a
\* docstring only if the text before it ends with : or =, or it starts on
\* line 1, or only whitespace precedes it on its line; any other
\* triple-quoted string produces no record.
C3_DocstringOnlyWhereStatement ==
    (pc = "extracted" /\ ext \in PythonExtensions)
    => LET ms == DocstringMatches(content, 0)
       IN  \A L \in DOMAIN comments :
              comments[L].type = "docstring"
              => \E k \in DOMAIN ms :
                    /\ LineOfPos(content, ms[k].start_pos) = L
                    /\ SubSeq(content, ms[k].start_pos + 1, ms[k].end_pos)
                          = comments[L].original
                    /\ LooksLikeStatement(content, ms[k])

\* the comment marker of an extractor
Marker(e) == IF e \in PythonExtensions THEN <<"#">> ELSE <<"/", "/">>

\* the offsets of line at which a marker stands
MarkerOffsets(e, line) == {pos \in 0..(Len(line) - 1) : StartsAt(line, Marker(e), pos)}

\* the quote scanner over the part of the line before offset pos
InsideString(line, pos) == QuoteScan(Take(line, pos), 1, FALSE, FALSE)

\* C9: a // or # that the quote scanner, run over the part of the line before
\* it, reports as inside a string produces no inline record; a line whose
\* markers are all inside strings yields no inline comment.
C9_NoInlineInsideString ==
    (pc = "extracted" /\ ext \in EXTRACTORS)
    => LET lines == Split(content)
       IN  \A i \in 1..Len(lines) :
              /\ \A pos \in MarkerOffsets(ext, lines[i]) :
                    InsideString(lines[i], pos)
                    => ~(/\ i \in DOMAIN comments
                         /\ comments[i].type = "inline"
                         /\ comments[i].start = pos)
              /\ (\A pos \in MarkerOffsets(ext, lines[i]) : InsideString(lines[i], pos))
                 => ~(i \in DOMAIN comments /\ comments[i].type = "inline")

\* C9's case: a C-style file with a // inside a string has been extracted
C9_Witness ==
    /\ pc = "extracted"
    /\ ext \in CStyleExtensions
    /\ \E i \in 1..Len(Split(content)) :
          \E pos \in MarkerOffsets(ext, Split(content)[i]) :
             InsideString(Split(content)[i], pos)

\* every key of translations is the line of an inline record with code before it
AllInlineWithCode ==
    /\ translations # Empty
    /\ \A L \in DOMAIN translations :
          /\ L \in DOMAIN comments
          /\ comments[L].type = "inline"
          /\ comments[L].extra.has_code

\* C10: replacing an inline comment that has a code prefix keeps the part of
\* the line before the marker as it was and appends the marker, one space and
\* the trimmed translation; every other line is unchanged.
C10_InlineKeepsCodePrefix ==
    (pc = "replaced" /\ ext \in EXTRACTORS /\ AllInlineWithCode)
    => LET lines == Split(content)
       IN  /\ ret = TRUE
           /\ disk = Join([i \in 1..Len(lines) |->
                        IF i \in DOMAIN translations
                        THEN Take(lines[i], comments[i].start) \o Marker(ext)
                             \o <<" ">> \o Strip(translations[i])
                        ELSE lines[i]])

\* C10's case: a C-style inline comment after code was replaced by a
\* translation that needed trimming
C10_Witness ==
    /\ pc = "replaced"
    /\ ext \in CStyleExtensions
    /\ AllInlineWithCode
    /\ \E L \in DOMAIN translations : Strip(translations[L]) # translations[L]

\* ------------------------------------------------------------------------
\* Claims about the file walker (SpecWalk)
\* ------------------------------------------------------------------------

\* the extensions the specification lists
AllowList == {<<".", "p", "y">>, <<".", "c">>, <<".", "c", "p", "p">>, <<".", "j", "s">>}

\* the files at or under the target path
UnderTarget == IF target_path \in fs THEN {target_path} ELSE WalkFiles(fs, target_path)

\* C4: detect_code_files returns exactly the files under the target path whose
\* extension is .py, .c, .cpp or .js, and every returned file has a registered
\* extractor.
C4_WalkerReturnsAllowList ==
    pc = "detected"
    => /\ detected = {f \in UnderTarget : SplitextExt(f) \in AllowList}
       /\ \A f \in detected : SplitextExt(f) \in EXTRACTORS

\* ------------------------------------------------------------------------
\* Claims about translate_file on one file (Spec)
\* ------------------------------------------------------------------------

\* the keys of the comments translate_file selects in the file it was given
Selected ==
    IF ext \notin EXTRACTORS THEN {}
    ELSE LET keys == CommentsToTranslate(ext, content, source_language)
         IN  {keys[k] : k \in DOMAIN keys}

\* the positions of the events of one kind in the log
Events(kind) == {k \in DOMAIN log : log[k].ev = kind}

\* the inline marker of the file's language
InlineMarker == IF ext \in PythonExtensions THEN <<"#">> ELSE <<"/", "/">>

\* the line the claim C5 expects for the inline comment of line L: the code
\* before the comment (or the indentation), the marker once, one space and the
\* trimmed first line of the translation
C5_ExpectedLine(L) ==
    LET line == Split(content)[L]
        prefix == IF comments[L].extra.has_code
                  THEN Take(line, comments[L].start)
                  ELSE Spaces(comments[L].start)
    IN  prefix \o InlineMarker \o <<" ">> \o Strip(Split(translated[L])[1])

\* C5: when the translation returned for an inline comment contains a newline,
\* the line written to the file is the original code prefix (or indentation),
\* the marker exactly once, one space and the trimmed first line of the
\* translation; and, the comment being the only one translated, no later line
\* of the translation appears in the file.
C5_InlineNewlineKeepsMarkerOnce ==
    (pc = "tf_done" /\ translated # Empty)
    => \A L \in DOMAIN translated :
          (comments[L].type = "inline" /\ Count(translated[L], NL) > 0)
          => /\ ret = TRUE
             /\ \E k \in DOMAIN Split(disk) : Split(disk)[k] = C5_ExpectedLine(L)
             /\ Cardinality(DOMAIN translated) = 1
                => \A j \in 2..Len(Split(translated[L])) :
                      Strip(Split(translated[L])[j]) # <<>>
                      => ~Contains(disk, Strip(Split(translated[L])[j]))

\* C6: when the backend raises for one comment of the file, translate_single
\* returns that comment's original text, every selected comment of the file is
\* still requested, the file is rewritten and reported as a success, and the
\* rewritten file holds a comment whose content is the failed comment's
\* original content.
C6_BackendFailureFallsBack ==
    (pc = "tf_done" /\ Cardinality(api_failed) = 1)
    => \A L \in api_failed :
          /\ translated[L] = comments[L].content
          /\ {log[k].line : k \in Events("call")} = Selected
          /\ ret = TRUE
          /\ log[Len(log)].ev = "write"
          /\ \E L2 \in DOMAIN ExtractorExtract(ext, disk) :
                ExtractorExtract(ext, disk)[L2].content = comments[L].content

\* C8: within one file the client is called once per selected comment, one call
\* at a time (a call is followed by its own return before anything else
\* happens), and the file is written exactly once, as the last step, after the
\* call of every selected comment has returned: no write lies between two
\* calls. (A file none of whose comments is selected makes no call and is
\* returned untouched.)
C8_CallsThenOneWrite ==
    LET selected == Selected
        calls == Events("call")
        returns == Events("return")
        writes == Events("write")
    IN  /\ \A k \in calls :
              k < Len(log) => (log[k + 1].ev = "return" /\ log[k + 1].line = log[k].line)
        /\ \A k \in returns :
              k > 1 /\ log[k - 1].ev = "call" /\ log[k - 1].line = log[k].line
        /\ \A j, k \in calls : log[j].line = log[k].line => j = k
        /\ \A k \in calls : log[k].line \in selected
        /\ Cardinality(writes) <= 1
        /\ \A k \in writes :
              /\ k = Len(log)
              /\ {log[j].line : j \in returns} = selected
        /\ (pc = "tf_done" /\ selected # {})
           => /\ Cardinality(writes) = 1
              /\ Cardinality(calls) = Cardinality(selected)
        /\ selected = {} => log = <<>>

\* C8's case: a file with two selected comments was translated and written
C8_Witness ==
    /\ pc = "tf_done"
    /\ Cardinality(Selected) >= 2
    /\ Cardinality(Events("call")) >= 2
    /\ log[Len(log)].ev = "write"
    /\ disk # content

\* ------------------------------------------------------------------------
\* Claims about translate_all_files (SpecPool)
\* ------------------------------------------------------------------------

\* the detected files
DetectedSet == {detected_files[k] : k \in DOMAIN detected_files}

\* C7: for every worker count >= 1 and every interleaving, each detected file
\* is handed to translate_file exactly once (never twice, and once by the end),
\* a file that returns False or raises stops no other file (until the end
\* some step is always possible), and at the end completed is the number of
\* detected files, successes plus failures is that number, and failed counts
\* exactly the files whose translate_file returned False or raised.
C7_EveryFileOnceAndCounted ==
    /\ \A f \in DOMAIN runs : f \in DetectedSet /\ runs[f] = 1
    /\ completed = Cardinality(yielded)
    /\ failed = Cardinality({f \in yielded : results[f] # "True"})
    /\ pc # "done" => ENABLED NextPool
    /\ pc = "done"
       => /\ DOMAIN runs = DetectedSet
          /\ DOMAIN results = DetectedSet
          /\ completed = Len(detected_files)
          /\ (completed - failed) + failed = Len(detected_files)
          /\ completed - failed = Cardinality({f \in DetectedSet : results[f] = "True"})
          /\ failed = Cardinality({f \in DetectedSet : results[f] \in {"False", "raised"}})

\* C7's case: two workers have processed three files, of which one returned
\* True, one returned False and one raised
C7_Witness ==
    /\ pc = "done"
    /\ max_workers = 2
    /\ Len(detected_files) = 3
    /\ {results[f] : f \in DetectedSet} = Outcomes
    /\ failed = 2

\* ------------------------------------------------------------------------
\* Claims about LanguageDetector (SpecLD)
\* ------------------------------------------------------------------------

\* the characters the specification strips from both ends of a text
MarkerOrSpace == {"/", "*", "#"} \cup Whitespace

\* the text without its leading and trailing marker characters and whitespace
WithoutMarkers(text) ==
    LET keep == {i \in 1..Len(text) : text[i] \notin MarkerOrSpace}
    IN  IF keep = {} THEN <<>>
        ELSE [k \in 1..(Max(keep) - Min(keep) + 1) |-> text[Min(keep) + k - 1]]

\* the one-drop rule of the specification on a stripped text
OneDropRule(t) ==
    IF \E i \in 1..Len(t) : t[i] \in CJKIdeographs THEN <<"z", "h">>
    ELSE IF \E i \in 1..Len(t) : t[i] \in Kana THEN <<"j", "p">>
    ELSE IF \A i \in 1..Len(t) :
               t[i] \in LowerCase \cup UpperCase \cup Digits \cup Punctuation \cup Whitespace
         THEN <<"e", "n">>
    ELSE NoneValue

\* C11 as stated: for every text, detect_language answers by the one-drop rule
\* applied to the text stripped of leading and trailing comment markers and
\* whitespace: Chinese on any ideograph, else Japanese on any kana, else
\* English when every character is an ASCII letter, digit, punctuation or
\* whitespace, else Unknown.
C11_OneDropRule_AsStated ==
    pc = "detected_language" => ret = OneDropRule(WithoutMarkers(content))

\* C11, amended: a text with nothing left after stripping is Unknown; every
\* other text is answered by the one-drop rule, so Latin letters with one
\* ideograph are Chinese, never English.
C11_OneDropRule ==
    pc = "detected_language"
    => ret = IF WithoutMarkers(content) = <<>> THEN NoneValue
             ELSE OneDropRule(WithoutMarkers(content))

\* C11's case: a text of a Latin letter, a kana and an ideograph was detected
C11_Witness ==
    /\ pc = "detected_language"
    /\ \E i, j, k \in 1..Len(content) :
          content[i] = "a" /\ content[j] = "u4f60" /\ content[k] = "u306e"
    /\ ret = <<"z", "h">>

\* C12: should_translate answers true for every text when source_language is
\* unset or is "any" in any letter case; otherwise it answers true exactly when
\* detect_language(text) equals source_language compared case-insensitively.
C12_ShouldTranslate ==
    pc = "decided"
    => ret = IF source_language = NoneValue \/ Lower(source_language) = <<"a", "n", "y">>
             THEN TRUE
             ELSE Lower(detect_language(content)) = Lower(source_language)

\* C12's case: an upper-case setting matched the language of a text
C12_Witness ==
    /\ pc = "decided"
    /\ source_language = <<"Z", "H">>
    /\ ret = TRUE

\* ------------------------------------------------------------------------
\* Claims about translate_file with a source language (Spec)
\* ------------------------------------------------------------------------

\* the comment markers of both language families
AnyMarker == {<<"#">>, <<"/", "/">>, <<"/", "*">>, <<"*", "/">>, Triple(DQ), Triple(SQ)}

\* C13: with source_language set, a client that answers every call with a
\* one-line translation and never fails, translate_file rewrites exactly the
\* comments whose detected language is source_language, sends each one's
\* marker-free content to the client, and changes the file only inside those
\* comments (code and comments in other languages are unchanged); the Python
\* file of a comment in Chinese above a line of code becomes the same file
\* with the translation after `# `.
C13_EndToEnd ==
    (/\ pc = "tf_done"
     /\ source_language # NoneValue
     /\ ext \in EXTRACTORS
     /\ api_failed = {}
     /\ \A L \in DOMAIN translated : Count(translated[L], NL) = 0)
    => /\ ret = TRUE
       /\ DOMAIN translated =
             {L \in DOMAIN comments :
                 detect_language(comments[L].content) = Lower(source_language)}
       /\ \A k \in Events("call") :
             /\ \A m \in AnyMarker : ~Contains(log[k].text, m)
             /\ log[k].text = Strip(comments[log[k].line].content)
       /\ ChangedOnlyInside(content, disk,
             {CommentSpan(ext, content, L) : L \in DOMAIN translated})
       /\ (/\ ext = <<".", "p", "y">>
           /\ content = <<"#", "u4f60", NL, "x">>)
          => disk = <<"#", " ">> \o translated[1] \o <<NL, "x">>

\* ------------------------------------------------------------------------
\* More claims about FileDetector on one file (SpecFD)
\* ------------------------------------------------------------------------

\* C14: for every content and both extractors, replace_comments with an empty
\* translations mapping returns the content unchanged.
C14_EmptyTranslationsIdentity ==
    (pc = "replaced" /\ ext \in EXTRACTORS /\ translations = Empty)
    => (ret = TRUE /\ disk = content)

\* C14's case: a content with a comment and a newline at its end went through
\* replace_comments with no translation
C14_Witness ==
    /\ pc = "replaced"
    /\ ext \in EXTRACTORS
    /\ translations = Empty
    /\ comments # Empty
    /\ EndsWith(content, <<NL>>)
    /\ disk = content

FreeSlashes(text, L) ==
    LET lines == Split(text)
        spans == CStyleMultilinePositions(text)
    IN  {pos \in SlashMatches(lines[L], 0) :
            /\ ~InsideString(lines[L], pos)
            /\ LineOffset(lines, L) + pos \notin spans}

\* the record of line L describes the // at offset pos
DescribesSlash(info, line, pos) ==
    /\ info.type = "inline"
    /\ info.start = pos
    /\ info.content = Strip(Drop(line, pos + 2))
    /\ info.extra.has_code = (Strip(Take(line, pos)) # <<>>)

\* C18 as stated: the result has at most one record per starting line, and a
\* C-style line with several // outside strings and outside multiline spans is
\* keyed by the record of the last of them.
C18_LastSlashWins_AsStated ==
    (pc = "extracted" /\ ext \in CStyleExtensions)
    => \A L \in 1..Len(Split(content)) :
          Cardinality(FreeSlashes(content, L)) >= 2
          => /\ L \in DOMAIN comments
             /\ DescribesSlash(comments[L], Split(content)[L], Max(FreeSlashes(content, L)))

\* C18, amended: the same for every line that is not a preprocessor directive
\* (its first character after whitespace is not #); a directive line gets no
\* inline record at all.
C18_LastSlashWins ==
    (pc = "extracted" /\ ext \in CStyleExtensions)
    => \A L \in 1..Len(Split(content)) :
          LET free == FreeSlashes(content, L)
              directive == StartsWith(Strip(Split(content)[L]), <<"#">>)
          IN  /\ (Cardinality(free) >= 2 /\ ~directive)
                 => /\ L \in DOMAIN comments
                    /\ DescribesSlash(comments[L], Split(content)[L], Max(free))
              /\ (directive /\ L \in DOMAIN comments)
                 => comments[L].type = "multiline"

\* C18's case: a line with code and two // was extracted
C18_Witness ==
    /\ pc = "extracted"
    /\ ext \in CStyleExtensions
    /\ \E L \in DOMAIN comments :
          /\ Cardinality(FreeSlashes(content, L)) >= 2
          /\ comments[L].start = Max(FreeSlashes(content, L))
          /\ comments[L].start > Min(FreeSlashes(content, L)) + 2
          /\ comments[L].extra.has_code

\* C19: when translations has a key for a line without a record,
\* replace_comments returns false without raising and the file is left
\* unchanged, also when other keys are valid.
C19_UnknownKeyLeavesFile ==
    (/\ pc = "replaced"
     /\ ext \in EXTRACTORS
     /\ \E L \in DOMAIN translations : L \notin DOMAIN comments)
    => (ret = FALSE /\ disk = content)

\* C19's case: a translation for a line with a comment, processed first, and
\* one for a line without
C19_Witness ==
    /\ pc = "replaced"
    /\ ext \in CStyleExtensions
    /\ \E L1, L2 \in DOMAIN translations :
          L1 < L2 /\ L1 \notin DOMAIN comments /\ L2 \in DOMAIN comments
    /\ ret = FALSE

\* C20: translate_file on a file with no comments, or with no comment for
\* which should_translate is true, returns True without calling the
\* translation client and without writing the file: its content is unchanged.
C20_NothingToTranslate ==
    (/\ pc = "tf_done"
     /\ \/ comments = Empty
        \/ \A L \in DOMAIN comments : ~should_translate(comments[L].content, source_language))
    => (ret = TRUE /\ log = <<>> /\ translated = Empty /\ disk = content)

\* C20's case: a file whose comments are all in another language than the one
\* asked for was processed
C20_Witness ==
    /\ pc = "tf_done"
    /\ Cardinality(DOMAIN comments) >= 2
    /\ source_language = <<"z", "h">>
    /\ \A L \in DOMAIN comments : ~should_translate(comments[L].content, source_language)
    /\ ret = TRUE
    /\ disk = content

\* ------------------------------------------------------------------------
\* The replace loop step by step (SpecFD)
\* ------------------------------------------------------------------------

\* one iteration of the loop of the extractor of extension e
ExtractorReplaceOne(e, lines, info, line_num, translation) ==
    IF e \in PythonExtensions
    THEN PythonReplaceOne(lines, info, line_num, translation)
    ELSE CStyleReplaceOne(lines, info, line_num, translation)

\* the position metadata a substitution uses
PositionMetadata(info) ==
    <<info.type, info.start,
      IF info.type = "inline" THEN 1 ELSE info.extra.line_count,
      IF info.type = "inline" THEN info.extra.has_code ELSE FALSE>>

\* the loop of replace_comments over keys, taken in descending order from
\* lines: before each substitution the record the loop uses for the line has
\* the metadata that extracting from the content as rewritten so far gives
RECURSIVE StepsInSync(_, _, _, _, _)
StepsInSync(e, lines, recs, tr, keys) ==
    IF keys = {} THEN TRUE
    ELSE LET L == Max(keys)
             current == ExtractorExtract(e, Join(lines))
         IN  /\ L \in DOMAIN current
             /\ PositionMetadata(current[L]) = PositionMetadata(recs[L])
             /\ StepsInSync(e, ExtractorReplaceOne(e, lines, recs[L], L, tr[L]),
                            recs, tr, keys \ {L})

\* C17: replace_comments takes the target lines in descending order, and when
\* the substitution for line L is applied the metadata it uses (kind, start
\* column, line_count, has_code) is what extracting from the current, partly
\* rewritten content yields for L, so a replacement at a higher line that
\* changed the number of lines never misplaces the substitution at L.
C17_MetadataInSync ==
    (/\ pc = "replaced"
     /\ ext \in EXTRACTORS
     /\ DOMAIN translations \subseteq DOMAIN comments)
    => StepsInSync(ext, Split(content), comments, translations, DOMAIN translations)

====
